---- MODULE Spec2Model ----
(***************************************************************************)
(* Model of archive-generator.py: main() validates a root path, builds    *)
(* the folder tree with generate_archive_index/scan_directory, counts the *)
(* files and writes the tree with save_archive_index.                     *)
(*                                                                         *)
(* Strings that the program manipulates character by character (entry     *)
(* names, paths) are sequences of code points, so that sorting, joining,   *)
(* relpath and the backslash replacement are computed, not assumed.        *)
(***************************************************************************)
EXTENDS Integers, Sequences, FiniteSets, TLC

\* ---------------------------------------------------------------- bounds
\* Largest number of entries below the scan root in a generated snapshot.
MaxEntries == 2
\* Number of symbolic links the host resolves in one path before stat fails
\* (ELOOP); os.path.isdir / os.path.isfile then answer False.
MaxSymlinks == 1

\* ------------------------------------------------------------ characters
Slash == 47
Backslash == 92

\* "." and ".."
CurDir == <<46>>
ParDir == <<46, 46>>

\* "old-articles"
OldArticles == <<111, 108, 100, 45, 97, 114, 116, 105, 99, 108, 101, 115>>
\* "old-articles/"
PathPrefix == OldArticles \o <<Slash>>

\* Entry names used in generated snapshots: "B", "a", "b\c".
NameB == <<66>>
NameA == <<97>>
NameBS == <<98, Backslash, 99>>
EntryNames == {NameB, NameA, NameBS}

\* Hosts: os.sep is "/" (POSIX) or "\" (Windows).
Hosts == {Slash, Backslash}

\* Characters the host treats as path separators (ntpath accepts both).
Seps(sep) == IF sep = Backslash THEN {Backslash, Slash} ELSE {Slash}

\* The scan root the user types: "/r" or "\r".
RootPath(sep) == <<sep, 114>>

\* ------------------------------------------------------- string helpers
\* Evaluate v once and hand the value to F.
Bind(v, F(_)) == CHOOSE r \in {F(x) : x \in {v}} : TRUE

Min(a, b) == IF a < b THEN a ELSE b

Last(s) == s[Len(s)]

\* The ordering under a case-insensitive sort key (str.lower).
Lower(c) == IF c >= 65 /\ c <= 90 THEN c + 32 ELSE c
RECURSIVE StrLess_IgnoreCase(_, _)
StrLess_IgnoreCase(a, b) ==
  IF b = <<>> THEN FALSE
  ELSE IF a = <<>> THEN TRUE
  ELSE IF Lower(Head(a)) # Lower(Head(b)) THEN Lower(Head(a)) < Lower(Head(b))
  ELSE StrLess_IgnoreCase(Tail(a), Tail(b))

\* Python's str ordering: by code point, a proper prefix first.
RECURSIVE StrLess(_, _)
StrLess(a, b) ==
  IF b = <<>> THEN FALSE
  ELSE IF a = <<>> THEN TRUE
  ELSE IF Head(a) # Head(b) THEN Head(a) < Head(b)
  ELSE StrLess(Tail(a), Tail(b))

RECURSIVE Insert(_, _)
Insert(x, s) ==
  IF s = <<>> THEN <<x>>
  ELSE IF StrLess(x, Head(s)) THEN <<x>> \o s
  ELSE <<Head(s)>> \o Insert(x, Tail(s))

\* A sort that is never applied: the listing order is kept.
SortNames_Unsorted(s) == s

\* list.sort() on a list of str.
RECURSIVE SortNames(_)
SortNames(s) == IF s = <<>> THEN <<>> ELSE Insert(Head(s), SortNames(Tail(s)))

\* str.split on the host's separators, empty components dropped: the
\* components of s[i..], the current one having begun at position start.
RECURSIVE SplitFrom(_, _, _, _)
SplitFrom(s, seps, start, i) ==
  IF i > Len(s) THEN (IF start < i THEN <<SubSeq(s, start, i - 1)>> ELSE <<>>)
  ELSE IF s[i] \in seps
       THEN (IF start < i THEN <<SubSeq(s, start, i - 1)>> ELSE <<>>)
            \o SplitFrom(s, seps, i + 1, i + 1)
       ELSE SplitFrom(s, seps, start, i + 1)

Split(s, seps) == SplitFrom(s, seps, 1, 1)

\* sep.join(parts)
RECURSIVE JoinWith(_, _)
JoinWith(parts, sep) ==
  IF parts = <<>> THEN <<>>
  ELSE IF Len(parts) = 1 THEN parts[1]
  ELSE parts[1] \o <<sep>> \o JoinWith(Tail(parts), sep)

\* os.path.join(path, item)
PathJoin(path, item, sep) ==
  IF item # <<>> /\ item[1] \in Seps(sep) THEN item
  ELSE IF path = <<>> \/ Last(path) \in Seps(sep) THEN path \o item
  ELSE path \o <<sep>> \o item

RECURSIVE CommonLen(_, _)
CommonLen(a, b) ==
  IF a = <<>> \/ b = <<>> \/ Head(a) # Head(b) THEN 0
  ELSE 1 + CommonLen(Tail(a), Tail(b))

\* os.path.relpath(path, start): purely lexical on absolute paths.
RelPath(path, start, sep) ==
  LET startList == Split(start, Seps(sep))
      pathList == Split(path, Seps(sep))
      i == CommonLen(startList, pathList)
      ups == [k \in 1..(Len(startList) - i) |-> ParDir]
      rel == ups \o SubSeq(pathList, i + 1, Len(pathList))
  IN IF rel = <<>> THEN CurDir ELSE JoinWith(rel, sep)

\* str.replace('\\', '/')
ReplaceBackslashes(s) == [i \in 1..Len(s) |-> IF s[i] = Backslash THEN Slash ELSE s[i]]

\* ------------------------------------------------------------ filesystem
\* A snapshot is a sequence of entries below the scan root (directory 0);
\* position in the sequence is the order os.listdir reports them in.
\*   kind: "dir" (readable directory), "udir" (directory the process may
\*         neither list nor traverse), "file", "special" (device, socket,
\*         fifo), "link" (symbolic link)
\*   target: for a link, the entry it points to (0 = the scan root,
\*         -1 = dangling); -2 otherwise
\*   parent: the directory the entry lives in; -1 = detached (not on disk)
Entry(p, n, k, t) == [parent |-> p, name |-> n, kind |-> k, target |-> t]

Env(f, s, rk) == [fs |-> f, sep |-> s, root |-> RootPath(s), rootKind |-> rk]

\* What the root path names: a directory, something else, or nothing.
KindOf(env, id) ==
  IF id < 0 THEN "none"
  ELSE IF id = 0
       THEN (IF env.rootKind = "dir" THEN "dir"
             ELSE IF env.rootKind = "notdir" THEN "file" ELSE "none")
       ELSE env.fs[id].kind

\* Every directory above the entry can be traversed.
RECURSIVE Accessible(_, _)
Accessible(env, id) ==
  IF id = 0 THEN KindOf(env, 0) = "dir"
  ELSE /\ id \in 1..Len(env.fs)
       /\ env.fs[id].parent >= 0
       /\ KindOf(env, env.fs[id].parent) = "dir"
       /\ Accessible(env, env.fs[id].parent)

\* Follow symbolic links from entry id; n links were followed so far.
RECURSIVE Follow(_, _, _)
Follow(env, id, n) ==
  IF id < 0 THEN [id |-> -1, n |-> n]
  ELSE IF KindOf(env, id) # "link" THEN [id |-> id, n |-> n]
  ELSE IF n + 1 > MaxSymlinks THEN [id |-> -1, n |-> n]
  ELSE IF env.fs[id].target < 0 \/ ~Accessible(env, env.fs[id].target)
       THEN [id |-> -1, n |-> n]
  ELSE Follow(env, env.fs[id].target, n + 1)

ChildOf(env, dir, name) ==
  LET c == {e \in 1..Len(env.fs) : env.fs[e].parent = dir /\ env.fs[e].name = name}
  IN IF c = {} THEN -1 ELSE CHOOSE e \in c : TRUE

\* Resolve components comps[i..] starting in directory cur.
RECURSIVE Walk(_, _, _, _, _)
Walk(env, comps, i, cur, n) ==
  IF i > Len(comps) THEN cur
  ELSE IF KindOf(env, cur) # "dir" THEN -1
  ELSE LET r == Follow(env, ChildOf(env, cur, comps[i]), n)
       IN IF r.id < 0 THEN -1 ELSE Walk(env, comps, i + 1, r.id, r.n)

\* stat(path), following links: the entry the path resolves to, or -1.
Stat(env, path) ==
  LET comps == Split(path, Seps(env.sep))
      rc == Split(env.root, Seps(env.sep))
  IN IF Len(comps) < Len(rc) \/ SubSeq(comps, 1, Len(rc)) # rc \/ KindOf(env, 0) = "none"
     THEN -1
     ELSE Walk(env, SubSeq(comps, Len(rc) + 1, Len(comps)), 1, 0, 0)

\* lstat(path): like stat, but a link in the last component is not followed.
Lstat(env, path) ==
  LET comps == Split(path, Seps(env.sep))
      rc == Split(env.root, Seps(env.sep))
      rest == SubSeq(comps, Len(rc) + 1, Len(comps))
  IN IF Len(comps) < Len(rc) \/ SubSeq(comps, 1, Len(rc)) # rc \/ KindOf(env, 0) = "none"
     THEN -1
     ELSE IF rest = <<>> THEN 0
     ELSE LET d == Walk(env, SubSeq(rest, 1, Len(rest) - 1), 1, 0, 0)
          IN IF d < 0 \/ KindOf(env, d) # "dir" THEN -1
             ELSE ChildOf(env, d, Last(rest))

exists(env, path) == KindOf(env, Stat(env, path)) # "none"

isdir(env, path) == KindOf(env, Stat(env, path)) \in {"dir", "udir"}

isfile(env, path) == KindOf(env, Stat(env, path)) = "file"

\* os.listdir(path): the names in the directory, or the error raised.
listdir(env, path) ==
  LET id == Stat(env, path)
      k == KindOf(env, id)
      InDir(e) == e.parent = id
      ents == SelectSeq(env.fs, InDir)
  IN IF k = "dir" THEN [ok |-> TRUE, err |-> "", items |-> [i \in 1..Len(ents) |-> ents[i].name]]
     ELSE IF k = "udir" THEN [ok |-> FALSE, err |-> "PermissionError", items |-> <<>>]
     ELSE [ok |-> FALSE, err |-> "OSError", items |-> <<>>]

\* ------------------------------------------------------------------ tree
Folder(name, children) == [name |-> name, type |-> "folder", children |-> children]

FileNode(name, path) == [name |-> name, type |-> "file", path |-> path]

NoTree == [name |-> <<>>, type |-> "none"]

\* A point at which an exception other than the listing's own error is
\* raised inside scan_directory's try block: while scanning the directory
\* at path `at`, after `after` children were appended to
\* result["children"]. With after = 0 it is raised before the first append
\* (while classifying or sorting, or by the first recursive call or
\* relpath); later it is raised by the next recursive call or relpath.
NoFault == [at |-> <<>>, after |-> -2]

Warning(kind, path) == [kind |-> kind, path |-> path]

\* The file entry appended at lines 51-60.
MakeFileNode(env, path, file) ==
  LET file_path == PathJoin(path, file, env.sep)
      relative_path == ReplaceBackslashes(RelPath(file_path, env.root, env.sep))
  IN FileNode(file, PathPrefix \o relative_path)

\* What lines 33 and 35 find out about each item: "folder" when isdir
\* accepts it, else "file" when isfile does, else "skip".
ItemClass(e, path, item) ==
  LET Decide(item_path) ==
        IF isdir(e, item_path) THEN "folder"
        ELSE IF isfile(e, item_path) THEN "file"
        ELSE "skip"
  IN Bind(PathJoin(path, item, e.sep), Decide)

Select(items, classes, c) ==
  LET idx == SelectSeq([i \in 1..Len(items) |-> i], LAMBDA i : classes[i] = c)
  IN [k \in 1..Len(idx) |-> items[idx[k]]]

\* Lines 31-36 with an else branch that takes everything that is no
\* directory for a file.
Classify_ElseIsFile(e, path, items) ==
  LET Sorted(classes) ==
        [folders |-> Select(items, classes, "folder"),
         files |-> Select(items, classes, "file") \o Select(items, classes, "skip")]
  IN Bind([i \in 1..Len(items) |-> ItemClass(e, path, items[i])], Sorted)

\* Lines 31-36 testing the bare item name instead of item_path.
Classify_BareItem(e, path, items) ==
  LET Sorted(classes) ==
        [folders |-> Select(items, classes, "folder"),
         files |-> Select(items, classes, "file")]
  IN Bind([i \in 1..Len(items) |-> ItemClass(e, <<>>, items[i])], Sorted)

\* Lines 31-36: folders are the items isdir accepts, files the others that
\* isfile accepts; the rest is dropped. Listing order is kept.
Classify(e, path, items) ==
  LET Sorted(classes) ==
        [folders |-> Select(items, classes, "folder"),
         files |-> Select(items, classes, "file")]
  IN Bind([i \in 1..Len(items) |-> ItemClass(e, path, items[i])], Sorted)

\* Lines 42-60: folders are appended first, then files.
Children(folderNodes, fileNodes) == folderNodes \o fileNodes

\* A handler that resets the children it had collected.
Caught_Cleared(name, children) == Folder(name, <<>>)

\* Lines 62-67: the handlers only print; result is returned as it stands.
Caught(name, children) == Folder(name, children)

NoScans == [nodes |-> <<>>, warnings |-> <<>>, scanned |-> <<>>]

RECURSIVE scan_directory(_, _, _, _), ScanFolders(_, _, _, _, _, _)

\* Lines 43-46 leaving out the folders that came back without children.
ScanFolders_PruneEmpty(e, flt, path, folders, i, nf) ==
  IF i > nf THEN NoScans
  ELSE LET Rest(h) ==
             LET Both(t) == [nodes |-> (IF h.node.children = <<>> THEN <<>> ELSE <<h.node>>)
                                       \o t.nodes,
                             warnings |-> h.warnings \o t.warnings,
                             scanned |-> h.scanned \o t.scanned]
             IN Bind(ScanFolders(e, flt, path, folders, i + 1, nf), Both)
       IN Bind(scan_directory(e, flt, PathJoin(path, folders[i], e.sep), folders[i]), Rest)

\* Lines 43-46 for folders[i..nf]: the child nodes, with the warnings and
\* listings of their scans.
ScanFolders(e, flt, path, folders, i, nf) ==
  IF i > nf THEN NoScans
  ELSE LET Rest(h) ==
             LET Both(t) == [nodes |-> <<h.node>> \o t.nodes,
                             warnings |-> h.warnings \o t.warnings,
                             scanned |-> h.scanned \o t.scanned]
             IN Bind(ScanFolders(e, flt, path, folders, i + 1, nf), Both)
       IN Bind(scan_directory(e, flt, PathJoin(path, folders[i], e.sep), folders[i]), Rest)

\* Lines 38-60 once the items are classified and sorted; an exception at
\* the fault point ends the try block with the children appended so far.
ScanListed(e, flt, path, name, folders, files) ==
  LET total == Len(folders) + Len(files)
      raised == flt.at = path /\ (flt.after = 0 \/ flt.after < total)
      done == IF raised THEN flt.after ELSE total
      nf == Min(done, Len(folders))
      nfile == done - nf
      fileNodes == [i \in 1..nfile |-> MakeFileNode(e, path, files[i])]
      Result(sub) ==
        [node |-> IF raised THEN Caught(name, Children(sub.nodes, fileNodes))
                  ELSE Folder(name, Children(sub.nodes, fileNodes)),
         warnings |-> sub.warnings
                      \o (IF raised THEN <<Warning("Exception", path)>> ELSE <<>>),
         scanned |-> <<path>> \o sub.scanned]
  IN Bind(ScanFolders(e, flt, path, folders, 1, nf), Result)

\* scan_directory(path, name): the node returned, the warnings printed and
\* the paths handed to os.listdir, in order.
scan_directory(e, flt, path, name) ==
  LET Listed(ls) ==
        IF ~ls.ok
        THEN [node |-> Caught(name, <<>>),
              warnings |-> <<Warning(ls.err, path)>>,
              scanned |-> <<path>>]
        ELSE LET Sorted(cls) ==
                   ScanListed(e, flt, path, name, SortNames(cls.folders), SortNames(cls.files))
             IN Bind(Classify(e, path, ls.items), Sorted)
  IN Bind(listdir(e, path), Listed)

\* A counter that also counts the folders.
RECURSIVE count_files_AllNodes(_)
count_files_AllNodes(node) ==
  IF node.type = "file" THEN 1
  ELSE LET RECURSIVE Sum(_)
           Sum(cs) == IF cs = <<>> THEN 0 ELSE count_files_AllNodes(Head(cs)) + Sum(Tail(cs))
       IN 1 + Sum(node.children)

\* count_files(node), lines 77-83.
RECURSIVE count_files(_)
count_files(node) ==
  IF node.type = "file" THEN 1
  ELSE LET RECURSIVE Sum(_)
           Sum(cs) == IF cs = <<>> THEN 0 ELSE count_files(Head(cs)) + Sum(Tail(cs))
       IN Sum(node.children)

\* generate_archive_index(root_folder_path), lines 70-88.
generate_archive_index(e, flt) ==
  LET Counted(r) == [structure |-> r.node, file_count |-> count_files(r.node),
                     warnings |-> r.warnings, scanned |-> r.scanned]
  IN Bind(scan_directory(e, flt, e.root, OldArticles), Counted)

\* The folder nodes of a tree, each with the path it was scanned at.
RECURSIVE Folders(_, _, _)
Folders(node, path, sep) ==
  IF node.type # "folder" THEN {}
  ELSE {[path |-> path, node |-> node]}
       \cup UNION {Folders(node.children[i], PathJoin(path, node.children[i].name, sep), sep) :
                    i \in 1..Len(node.children)}

\* The file nodes of a tree, each with the names of the folders above it
\* (below the root) and the path of the directory it was found in.
RECURSIVE Files(_, _, _, _)
Files(node, path, above, sep) ==
  UNION {IF node.children[i].type = "file"
         THEN {[dir |-> path, above |-> above, node |-> node.children[i]]}
         ELSE Files(node.children[i], PathJoin(path, node.children[i].name, sep),
                    Append(above, node.children[i].name), sep) :
         i \in 1..Len(node.children)}

\* ------------------------------------------------------------- snapshots
\* Names the host allows for an entry: none contains a separator.
ValidNames(sep) == {n \in EntryNames : \A i \in 1..Len(n) : n[i] \notin Seps(sep)}

DirIds(f) == {0} \cup {e \in 1..Len(f) : f[e].kind \in {"dir", "udir"}}

KindChoices(n) ==
  {<<"dir", -2>>, <<"udir", -2>>, <<"file", -2>>, <<"special", -2>>}
  \cup {<<"link", t>> : t \in -1..(n - 1)}

\* The entries that can be added to snapshot f: in an existing directory,
\* under a name no sibling has.
NextEntries(f, sep) ==
  UNION {{Entry(p, nm, kt[1], kt[2]) :
            nm \in {n \in ValidNames(sep) :
                      \A e \in 1..Len(f) : ~(f[e].parent = p /\ f[e].name = n)},
            kt \in KindChoices(Len(f) + 1)} :
         p \in DirIds(f)}

RECURSIVE SnapshotsOfSize(_, _)
SnapshotsOfSize(k, sep) ==
  IF k = 0 THEN {<<>>}
  ELSE UNION {{Append(f, e) : e \in NextEntries(f, sep)} : f \in SnapshotsOfSize(k - 1, sep)}

Snapshots(sep) == UNION {SnapshotsOfSize(k, sep) : k \in 0..MaxEntries}

\* ----------------------------------------------------------------- state
VARIABLES
  pc,             \* where main() is: "start", "generate", "save", "success",
                  \* "rejected" (early return), "crashed" (exception escaped)
  sep,            \* os.sep of the host
  rootKind,       \* what the typed root path names: "unset" before input
  fs,             \* the snapshot below the root
  fault,          \* the exception raised during the scan, if any
  structure,      \* the tree returned by generate_archive_index
  file_count,     \* the value of count_files(structure); -1 before
  warnings,       \* the "Warning: ..." lines printed by scan_directory
  scanned,        \* the paths handed to os.listdir
  outState,       \* "absent", "written", or "failed" (absent or truncated)
  genCalls,       \* calls of generate_archive_index
  saveAttempts,   \* calls of open(output_path, 'w')
  successPrinted  \* the SUCCESS banner was printed

vars == <<pc, sep, rootKind, fs, fault, structure, file_count, warnings, scanned,
          outState, genCalls, saveAttempts, successPrinted>>

env == Env(fs, sep, rootKind)

Init ==
  /\ pc = "start"
  /\ sep \in Hosts
  /\ rootKind = "unset"
  /\ fs = <<>>
  /\ fault = NoFault
  /\ structure = NoTree
  /\ file_count = -1
  /\ warnings = <<>>
  /\ scanned = <<>>
  /\ outState = "absent"
  /\ genCalls = 0
  /\ saveAttempts = 0
  /\ successPrinted = FALSE

\* The validation with the isdir test left out.
PathIsValid_ExistsOnly(e) == exists(e, e.root)

\* Lines 113-120: the path must exist and be a directory.
PathIsValid(e) == exists(e, e.root) /\ isdir(e, e.root)

\* Lines 110-124: the user types the root path; main returns early unless it
\* names a directory. S is the set of snapshots the path may hold.
EnterPath(S) ==
  /\ pc = "start"
  /\ \E rk \in {"missing", "notdir", "dir"} :
       \E f \in (IF rk = "dir" THEN S ELSE {<<>>}) :
         /\ rootKind' = rk
         /\ fs' = f
         /\ pc' = IF PathIsValid(Env(f, sep, rk)) THEN "generate" ELSE "rejected"
  /\ UNCHANGED <<sep, fault, structure, file_count, warnings, scanned,
                 outState, genCalls, saveAttempts, successPrinted>>

\* The points of a scan at which an exception can be raised.
FaultPoints(e) ==
  {NoFault} \cup
  UNION {{[at |-> fr.path, after |-> k] :
            k \in {0} \cup 0..(Len(fr.node.children) - 1)} :
         fr \in {x \in Folders(scan_directory(e, NoFault, e.root, OldArticles).node,
                               e.root, e.sep) : listdir(e, x.path).ok}}

\* Line 127: generate_archive_index scans, counts and returns the tree.
Generate ==
  /\ pc = "generate"
  /\ \E flt \in FaultPoints(env) :
       \E g \in {generate_archive_index(env, flt)} :
          /\ fault' = flt
          /\ structure' = g.structure
          /\ file_count' = g.file_count
          /\ warnings' = g.warnings
          /\ scanned' = g.scanned
  /\ genCalls' = genCalls + 1
  /\ pc' = "save"
  /\ UNCHANGED <<sep, rootKind, fs, outState, saveAttempts, successPrinted>>

\* Lines 135-158 with save_archive_index succeeding, whatever output path
\* the user chose.
SaveOk ==
  /\ pc = "save"
  /\ saveAttempts' = saveAttempts + 1
  /\ outState' = "written"
  /\ successPrinted' = TRUE
  /\ pc' = "success"
  /\ UNCHANGED <<sep, rootKind, fs, fault, structure, file_count, warnings, scanned, genCalls>>

\* A failed write that is swallowed, main carrying on to the banner.
SaveFail_Swallowed ==
  /\ pc = "save"
  /\ saveAttempts' = saveAttempts + 1
  /\ outState' = "failed"
  /\ successPrinted' = TRUE
  /\ pc' = "success"
  /\ UNCHANGED <<sep, rootKind, fs, fault, structure, file_count, warnings, scanned, genCalls>>

\* Lines 135-145 with open() or json.dump raising, whatever output path the
\* user chose: nothing catches it.
SaveFail ==
  /\ pc = "save"
  /\ saveAttempts' = saveAttempts + 1
  /\ outState' = "failed"
  /\ successPrinted' = FALSE
  /\ pc' = "crashed"
  /\ UNCHANGED <<sep, rootKind, fs, fault, structure, file_count, warnings, scanned, genCalls>>

Next ==
  \/ EnterPath(Snapshots(sep))
  \/ Generate
  \/ SaveOk
  \/ SaveFail

Spec == Init /\ [][Next]_vars

\* The scenario of a root holding the files b.txt and A.txt and the folders
\* Zeta and alpha, listed in any order.
NameBTxt == <<98, 46, 116, 120, 116>>
NameATxt == <<65, 46, 116, 120, 116>>
NameZeta == <<90, 101, 116, 97>>
NameAlpha == <<97, 108, 112, 104, 97>>

ScenarioEntries ==
  {Entry(0, NameBTxt, "file", -2), Entry(0, NameATxt, "file", -2),
   Entry(0, NameZeta, "dir", -2), Entry(0, NameAlpha, "dir", -2)}

ScenarioSnapshots ==
  {f \in [1..4 -> ScenarioEntries] : \A i, j \in 1..4 : i # j => f[i] # f[j]}

NextScenario ==
  \/ EnterPath(ScenarioSnapshots)
  \/ Generate
  \/ SaveOk
  \/ SaveFail

SpecScenario == Init /\ [][NextScenario]_vars

\* ---------------------------------------------------- property helpers
Range(s) == {s[i] : i \in 1..Len(s)}

\* Ascending order of two strings by code point, stated without recursion.
CodePointLess(a, b) ==
  \E k \in 0..Min(Len(a), Len(b)) :
    /\ \A j \in 1..k : a[j] = b[j]
    /\ \/ k = Len(a) /\ k < Len(b)
       \/ k < Len(a) /\ k < Len(b) /\ a[k + 1] < b[k + 1]

\* generate_archive_index has just returned.
Returned == pc = "save"

TreeFolders == Folders(structure, env.root, sep)

TreeFiles == Files(structure, env.root, <<>>, sep)

FolderAt(p) == CHOOSE fr \in TreeFolders : fr.path = p

ChildNamed(node, name, type) ==
  \E i \in 1..Len(node.children) :
    node.children[i].name = name /\ node.children[i].type = type

HasChildNamed(node, name) ==
  \E i \in 1..Len(node.children) : node.children[i].name = name

\* The scan of the directory at path p listed it successfully.
ListedOk(p) == listdir(env, p).ok

\* -------------------------------------------------------------- C1
FoldersFirstSorted(children) ==
  \A i \in 1..(Len(children) - 1) :
    /\ children[i].type = "file" => children[i + 1].type = "file"
    /\ children[i].type = children[i + 1].type
         => CodePointLess(children[i].name, children[i + 1].name)

\* C1: in the returned tree every Folder node has its folder children before
\* its file children, each group ascending by name, scan failures included.
C1_FoldersFirstSorted ==
  Returned => \A fr \in TreeFolders : FoldersFirstSorted(fr.node.children)

\* A scan failed, and the root holds a folder followed by a file.
C1_Witness ==
  /\ Returned
  /\ warnings # <<>>
  /\ \E i \in 1..(Len(structure.children) - 1) :
       structure.children[i].type = "folder" /\ structure.children[i + 1].type = "file"

\* -------------------------------------------------------------- C2
\* C2: every File node's path is "old-articles/" followed by the names of
\* the folders above it and its own name, joined by "/", each unchanged.
C2_PosixRelativePath ==
  Returned =>
    \A x \in TreeFiles :
      x.node.path = PathPrefix \o JoinWith(Append(x.above, x.node.name), Slash)

\* -------------------------------------------------------------- C3
\* Regular files reachable through readable real directories only.
RealFiles == {x \in 1..Len(fs) : fs[x].kind = "file" /\ Accessible(env, x)}

\* C3 as stated, read in its favour (no exception during the scan, files
\* under unreadable directories not counted): count_files equals the number
\* of regular files, symlinks excluded.
C3_Original ==
  Returned /\ fault = NoFault => file_count = Cardinality(RealFiles)

\* The paths below `path` that resolve to a regular file, descending into
\* everything that resolves to a directory that can be listed.
RECURSIVE ReachableFiles(_, _), ReachableIn(_, _, _, _)
ReachableIn(e, path, items, i) ==
  IF i > Len(items) THEN 0
  ELSE LET q == PathJoin(path, items[i], e.sep)
       IN (IF isdir(e, q) THEN ReachableFiles(e, q)
           ELSE IF isfile(e, q) THEN 1 ELSE 0)
          + ReachableIn(e, path, items, i + 1)
ReachableFiles(e, path) ==
  LET Listed(ls) == IF ls.ok THEN ReachableIn(e, path, ls.items, 1) ELSE 0
  IN Bind(listdir(e, path), Listed)

\* C3 amended: when no exception other than a failed listing interrupts the
\* scan, count_files equals the number of paths that resolve (symlinks
\* followed) to a regular file, reached through directories and symlinks to
\* directories that can be listed.
C3_CountMatchesResolvedFiles ==
  Returned /\ fault = NoFault => file_count = ReachableFiles(env, env.root)

\* The count covers a symlink that resolves to a regular file.
C3_Witness ==
  /\ Returned
  /\ fault = NoFault
  /\ file_count >= 2
  /\ \E x \in 1..Len(fs) : fs[x].kind = "link" /\ isfile(env, PathJoin(env.root, fs[x].name, sep))

\* -------------------------------------------------------------- C4
\* The snapshot in which directory d is readable and empty.
Emptied(f, d) ==
  [i \in 1..Len(f) |->
     IF i = d THEN [f[i] EXCEPT !.kind = "dir"]
     ELSE IF f[i].parent = d THEN [f[i] EXCEPT !.parent = -1]
     ELSE f[i]]

\* The subdirectories whose listing failed with a permission error.
DeniedPaths ==
  {q \in Range(scanned) :
     /\ q # env.root
     /\ listdir(env, q).err = "PermissionError"}

\* C4: when listing subdirectory D is denied, the run still returns a tree,
\* D is in it as an empty Folder named D, a warning is printed, and the
\* tree is the one the scan builds when D is a readable empty directory.
C4_DeniedSubdirIsEmptyFolder ==
  Returned =>
    \A q \in DeniedPaths :
      /\ Warning("PermissionError", q) \in Range(warnings)
      /\ \E fr \in TreeFolders :
           /\ fr.path = q
           /\ fr.node = Folder(Last(Split(q, Seps(sep))), <<>>)
      /\ structure =
           scan_directory(Env(Emptied(fs, Stat(env, q)), sep, rootKind),
                         fault, env.root, OldArticles).node

\* A denied subdirectory next to a sibling in the root.
C4_Witness ==
  /\ Returned
  /\ Len(structure.children) >= 2
  /\ \E q \in DeniedPaths : Lstat(env, q) \in 1..Len(fs) /\ fs[Lstat(env, q)].parent = 0

\* -------------------------------------------------------------- C5
\* C5 as stated: whenever scanning a directory raised, at whatever point,
\* the node returned for it has no children.
C5_Original ==
  Returned =>
    \A i \in 1..Len(warnings) : FolderAt(warnings[i].path).node.children = <<>>

\* The node of the directory at path q in the tree of an undisturbed scan.
UndisturbedAt(q) ==
  LET frs == Folders(scan_directory(env, NoFault, env.root, OldArticles).node, env.root, sep)
  IN (CHOOSE fr \in frs : fr.path = q).node

\* C5 amended: a directory whose scan raised keeps exactly the children
\* appended before the error (none when the listing itself failed); the
\* error is printed as a warning and the run goes on to return the tree.
C5_KeepsChildrenCollected ==
  Returned =>
    /\ fault # NoFault => Warning("Exception", fault.at) \in Range(warnings)
    /\ \A i \in 1..Len(warnings) :
         LET w == warnings[i]
         IN /\ \E fr \in TreeFolders : fr.path = w.path
            /\ FolderAt(w.path).node.children =
                 IF w.kind = "Exception"
                 THEN SubSeq(UndisturbedAt(w.path).children, 1, fault.after)
                 ELSE <<>>

\* An exception after at least one child was appended.
C5_Witness ==
  /\ Returned
  /\ fault.after >= 1
  /\ Warning("Exception", fault.at) \in Range(warnings)

\* -------------------------------------------------------------- C6
ChildNames == [i \in 1..Len(structure.children) |-> structure.children[i].name]

\* C6 as stated: the scenario's root children are [alpha, Zeta, A.txt, b.txt].
C6_Original ==
  Returned /\ fault = NoFault => ChildNames = <<NameAlpha, NameZeta, NameATxt, NameBTxt>>

\* C6 amended: under the case-sensitive code point order that list.sort
\* applies, the scenario's root children are [Zeta, alpha, A.txt, b.txt].
C6_ScenarioOrder ==
  Returned /\ fault = NoFault => ChildNames = <<NameZeta, NameAlpha, NameATxt, NameBTxt>>

\* The scenario listed with the files first and alpha before Zeta.
C6_Witness ==
  /\ Returned
  /\ fault = NoFault
  /\ [i \in 1..Len(fs) |-> fs[i].name] = <<NameBTxt, NameATxt, NameAlpha, NameZeta>>

\* -------------------------------------------------------------- C7
\* C7: a root path that does not exist or is no directory makes main return
\* early: nothing is generated or saved, no file is written, nothing escapes.
C7_InvalidRootRejected ==
  rootKind \in {"missing", "notdir"} =>
    /\ pc = "rejected"
    /\ genCalls = 0
    /\ saveAttempts = 0
    /\ outState = "absent"
    /\ structure = NoTree
    /\ ~successPrinted
    /\ ~ENABLED Next

\* The typed path names something that is no directory.
C7_Witness == pc = "rejected" /\ rootKind = "notdir"

\* -------------------------------------------------------------- C8
\* C8: the write is attempted at most once and only after the tree is built
\* and counted; a failed write escapes main, which then never prints the
\* success banner and does nothing more.
C8_WriteFailureFatal ==
  /\ saveAttempts <= 1
  /\ saveAttempts = 1 => genCalls = 1 /\ structure # NoTree /\ file_count >= 0
  /\ outState = "failed" =>
       /\ pc = "crashed"
       /\ saveAttempts = 1
       /\ ~successPrinted
       /\ ~ENABLED Next
  /\ successPrinted => outState = "written"

\* The write failed.
C8_Witness == pc = "crashed" /\ outState = "failed" /\ saveAttempts = 1

\* -------------------------------------------------------------- C9
\* The items of the directory at path p, with the path of each.
ItemsAt(p) ==
  {[name |-> n, path |-> PathJoin(p, n, sep)] : n \in Range(listdir(env, p).items)}

\* C9 as stated: an entry that is a symlink or a special file has no node.
C9_Original ==
  Returned =>
    \A fr \in {x \in TreeFolders : ListedOk(x.path)} :
      \A it \in ItemsAt(fr.path) :
        KindOf(env, Lstat(env, it.path)) \in {"link", "special"}
          => ~HasChildNamed(fr.node, it.name)

\* C9 amended: an entry for which os.path.isdir and os.path.isfile both
\* answer False (a special file, a dangling or unresolvable symlink) gets
\* no node, is not scanned and causes no warning; a symlink that resolves
\* to a directory is a Folder node and is scanned, one that resolves to a
\* regular file is a File node.
C9_SkipsWhatIsNeitherDirNorFile ==
  Returned =>
    \A fr \in {x \in TreeFolders : ListedOk(x.path)} :
      /\ \A it \in ItemsAt(fr.path) :
           /\ ~isdir(env, it.path) /\ ~isfile(env, it.path) =>
                /\ ~HasChildNamed(fr.node, it.name)
                /\ it.path \notin Range(scanned)
                /\ \A i \in 1..Len(warnings) : warnings[i].path # it.path
           /\ fault = NoFault /\ isdir(env, it.path) =>
                ChildNamed(fr.node, it.name, "folder") /\ it.path \in Range(scanned)
           /\ fault = NoFault /\ ~isdir(env, it.path) /\ isfile(env, it.path) =>
                ChildNamed(fr.node, it.name, "file")
      /\ \A i \in 1..Len(fr.node.children) :
           LET c == fr.node.children[i]
               q == PathJoin(fr.path, c.name, sep)
           IN IF c.type = "folder" THEN isdir(env, q) ELSE ~isdir(env, q) /\ isfile(env, q)

\* The root holds a symlink that resolves to a directory and an entry that
\* is neither a directory nor a regular file.
C9_Witness ==
  /\ Returned
  /\ fault = NoFault
  /\ \E it \in ItemsAt(env.root) :
       KindOf(env, Lstat(env, it.path)) = "link" /\ isdir(env, it.path)
  /\ \E it \in ItemsAt(env.root) : ~isdir(env, it.path) /\ ~isfile(env, it.path)

\* -------------------------------------------------------------- C10
\* The real directories that can be reached from the root.
ReachableDirs == {0} \cup {d \in DirIds(fs) \ {0} : Accessible(env, d)}

FoldersOf(d) == {fr \in TreeFolders : Stat(env, fr.path) = d}

RECURSIVE JoinAll(_, _, _)
JoinAll(base, comps, s) ==
  IF comps = <<>> THEN base ELSE JoinAll(PathJoin(base, Head(comps), s), Tail(comps), s)

\* The number of components of path q, below the root, that are symlinks.
LinksIn(q) ==
  LET comps == Split(q, Seps(sep))
      rest == SubSeq(comps, Len(Split(env.root, Seps(sep))) + 1, Len(comps))
  IN Cardinality({k \in 1..Len(rest) :
                    KindOf(env, Lstat(env, JoinAll(env.root, SubSeq(rest, 1, k), sep))) = "link"})

\* A symlink of the snapshot resolves to a directory.
HasDirLink ==
  \E x \in 1..Len(fs) :
    fs[x].kind = "link" /\ KindOf(env, Follow(env, x, 0).id) \in {"dir", "udir"}

\* C10 as stated, read in its favour (no exception during the scan): every
\* real directory reachable from the root has exactly one Folder node.
C10_Original ==
  Returned /\ fault = NoFault =>
    \A d \in ReachableDirs : Cardinality(FoldersOf(d)) = 1

\* C10 amended: the scan of every snapshot returns; without an exception
\* every reachable real directory has a Folder node, exactly one when no
\* symlink resolves to a directory; no path is listed twice, and a
\* directory reached through symlinks is scanned again for each such path,
\* up to the number of links the host resolves in one path.
C10_ScanTerminatesOncePerPath ==
  /\ pc \in {"save", "success", "crashed"} => genCalls = 1 /\ structure.type = "folder"
  /\ Returned =>
       /\ \A i, j \in 1..Len(scanned) : i # j => scanned[i] # scanned[j]
       /\ \A i \in 1..Len(scanned) : LinksIn(scanned[i]) <= MaxSymlinks
       /\ {fr.path : fr \in TreeFolders} = Range(scanned)
       /\ fault = NoFault =>
            \A d \in ReachableDirs :
              /\ Cardinality(FoldersOf(d)) >= 1
              /\ ~HasDirLink => Cardinality(FoldersOf(d)) = 1

\* A symlink to the scan root sits in a subdirectory, and the root has more
\* than one Folder node.
C10_Witness ==
  /\ Returned
  /\ fault = NoFault
  /\ \E x \in 1..Len(fs) : fs[x].kind = "link" /\ fs[x].target = 0 /\ fs[x].parent # 0
  /\ Cardinality(FoldersOf(0)) >= 2

====
